---- MODULE Spec2Model ----
(***************************************************************************)
(* pulseaudio-dlna: the bootstrap of the bridge (pulseaudio_dlna/__main__, *)
(* class PulseAudioDLNA) and the radio launcher script (scripts/radio.py,  *)
(* class RadioLauncher and the script body).                               *)
(*                                                                         *)
(* Spec      : one run of PulseAudioDLNA.startup, step by step, with the   *)
(*             shutdown method and the delivery of a termination signal.   *)
(* SpecRadio : one run of scripts/radio.py after device discovery.         *)
(***************************************************************************)
EXTENDS Integers, Sequences, FiniteSets, TLC

VARIABLES
    options,              \* docopt result: host, encoder, bit_rate, renderer_urls
    supported_encoders,   \* pulseaudio_dlna.common.supported_encoders
    supported0,           \* history: supported_encoders when startup was entered
    pc,                   \* position of startup
    idx,                  \* loop position of the bit-rate and the validate loops
    alive,                \* the main process has not ended
    ended_by,             \* "none", "exit", "exception", "shutdown", "SIGINT", "SIGTERM"
    exit_line,            \* source line of the sys.exit / raise that ended startup, 0 if none
    exit_status,          \* process exit status, -1 while alive
    bit_rate,             \* encoder -> the bit rate set on it, "None" if never set
    validated,            \* encoder -> number of validate() calls
    stream_server,        \* self.stream_server: "None", "bound", "error"
    pulse,                \* the local variable pulse of startup: "None", "watcher"
    self_pulse,           \* the field self.pulse
    self_server_process,  \* the field self.server_process
    renderer_holder,      \* the RendererHolder and the listener object exist
    started,              \* worker processes started
    search_ran,           \* RendererDiscover.search was called
    registered_via,       \* ways renderers were registered: "url", "search"
    handlers,             \* SIGINT / SIGTERM are bound to self.shutdown
    shutdown_ran,         \* shutdown was entered
    cleanup_called,       \* the watcher's cleanup() was called
    server_closed,        \* server_close() was called
    devices,              \* RadioLauncher.devices
    mode,                 \* radio script arguments: "play", "stop", "list"
    rpc,                  \* position of the radio script
    ri,                   \* index into the script's device list
    calls,                \* control calls issued: [inv, dev]
    log                   \* what the launcher logged: [inv, dev, text]

mainvars == <<options, supported_encoders, supported0, pc, idx, alive, ended_by,
              exit_line, exit_status, bit_rate, validated, stream_server, pulse,
              self_pulse, self_server_process, renderer_holder, started,
              search_ran, registered_via, handlers, shutdown_ran, cleanup_called,
              server_closed>>

radiovars == <<devices, mode, rpc, ri, calls, log>>

vars == <<mainvars, radiovars>>

\* ---------------------------------------------------------------- bounds

\* longest supported-encoder list drawn
MaxEncoders == 2

\* most devices the radio launcher discovers
MaxDevices == 2

\* ---------------------------------------------------------------- encoders

None == "None"

\* the encoder objects a supported list can hold
EncoderPool == {"lame", "mp3b", "ogg", "wav"}

\* encoder.suffix
Suffix(e) ==
    CASE e = "lame" -> "mp3"
      [] e = "mp3b" -> "mp3"
      [] e = "ogg"  -> "ogg"
      [] e = "wav"  -> "wav"

\* encoder.bit_rates
BitRates(e) ==
    CASE e = "lame" -> {"128", "192"}
      [] e = "mp3b" -> {"192"}
      [] e = "ogg"  -> {"128"}
      [] e = "wav"  -> {}

\* the bit_rate setter raises UnsupportedBitrateException unless this holds
AcceptsBitRate(e, rate) == rate \in BitRates(e)

EncoderOptions == {None, "mp3", "ogg", "xyz"}
BitRateOptions == {None, "128", "192"}

Range(s) == {s[k] : k \in 1..Len(s)}

\* the lists of distinct encoders of length 1..n
EncoderLists(n) ==
    {s \in UNION {[1..k -> EncoderPool] : k \in 1..n} :
        \A a, b \in 1..Len(s) : a # b => s[a] # s[b]}

\* ---------------------------------------------------------------- startup

Workers == {"pulse", "server", "listener"}

PcOrder == <<"host", "encoder", "bitrate", "validate", "server", "pulse",
             "holder", "processes", "join">>

Rank(p) == CHOOSE k \in 1..Len(PcOrder) : PcOrder[k] = p

\* sys.exit(1) at the given line
SysExit(line) ==
    /\ alive' = FALSE
    /\ ended_by' = "exit"
    /\ exit_line' = line
    /\ exit_status' = 1

\* an uncaught exception at the given line
Raise(line) ==
    /\ alive' = FALSE
    /\ ended_by' = "exception"
    /\ exit_line' = line
    /\ exit_status' = 1

Continue == UNCHANGED <<alive, ended_by, exit_line, exit_status>>

\* lines 96-104: the host is the option or default_ipv4(), which may be None
ResolveHost ==
    /\ alive /\ pc = "host"
    /\ \E ipv4_known \in BOOLEAN :
         IF ~options.host /\ ~ipv4_known
         THEN SysExit(102) /\ UNCHANGED pc
         ELSE Continue /\ pc' = "encoder"
    /\ UNCHANGED <<options, supported_encoders, supported0, idx, bit_rate, validated,
                   stream_server, pulse, self_pulse, self_server_process,
                   renderer_holder, started, search_ran, registered_via, handlers,
                   shutdown_ran, cleanup_called, server_closed, radiovars>>

\* lines 117-120: index of the first encoder of the list with the suffix, 0 if none
RECURSIVE FirstWithSuffix(_, _, _)
FirstWithSuffix(list, suffix, k) ==
    IF k > Len(list) THEN 0
    ELSE IF Suffix(list[k]) = suffix THEN k
    ELSE FirstWithSuffix(list, suffix, k + 1)

\* lines 117-120: the supported list after the selection loop
SelectBySuffix(list, suffix) ==
    IF FirstWithSuffix(list, suffix, 1) = 0 THEN list
    ELSE <<list[FirstWithSuffix(list, suffix, 1)]>>

\* the phase entered when the encoder selection is over (line 126)
AfterSelect == IF options.bit_rate # None THEN "bitrate" ELSE "validate"

\* lines 116-124
SelectEncoder ==
    /\ alive /\ pc = "encoder"
    /\ IF options.encoder = None
       THEN /\ Continue
            /\ pc' = AfterSelect
            /\ UNCHANGED supported_encoders
       ELSE /\ supported_encoders' = SelectBySuffix(supported_encoders, options.encoder)
            /\ IF Len(supported_encoders') # 1
               THEN SysExit(124) /\ UNCHANGED pc
               ELSE Continue /\ pc' = AfterSelect
    /\ idx' = 1
    /\ UNCHANGED <<options, supported0, bit_rate, validated,
                   stream_server, pulse, self_pulse, self_server_process,
                   renderer_holder, started, search_ran, registered_via, handlers,
                   shutdown_ran, cleanup_called, server_closed, radiovars>>

\* lines 127-143 with the rejecting encoder dropped from the list instead of exiting
SetBitRateExcluding ==
    /\ alive /\ pc = "bitrate"
    /\ LET e == supported_encoders[idx] IN
         IF AcceptsBitRate(e, options.bit_rate)
         THEN /\ bit_rate' = [bit_rate EXCEPT ![e] = options.bit_rate]
              /\ UNCHANGED supported_encoders
              /\ Continue
              /\ IF idx = Len(supported_encoders)
                 THEN pc' = "validate" /\ idx' = 1
                 ELSE pc' = pc /\ idx' = idx + 1
         ELSE /\ UNCHANGED bit_rate
              /\ IF Len(supported_encoders) = 1
                 THEN SysExit(143) /\ UNCHANGED <<pc, idx, supported_encoders>>
                 ELSE /\ Continue
                      /\ supported_encoders' =
                           [k \in 1..(Len(supported_encoders) - 1) |->
                              IF k < idx THEN supported_encoders[k]
                              ELSE supported_encoders[k + 1]]
                      /\ IF idx > Len(supported_encoders')
                         THEN pc' = "validate" /\ idx' = 1
                         ELSE pc' = pc /\ idx' = idx
    /\ UNCHANGED <<options, supported0, validated,
                   stream_server, pulse, self_pulse, self_server_process,
                   renderer_holder, started, search_ran, registered_via, handlers,
                   shutdown_ran, cleanup_called, server_closed, radiovars>>

\* lines 126-143, one iteration of the loop
SetBitRate ==
    /\ alive /\ pc = "bitrate"
    /\ LET e == supported_encoders[idx] IN
         IF AcceptsBitRate(e, options.bit_rate)
         THEN /\ bit_rate' = [bit_rate EXCEPT ![e] = options.bit_rate]
              /\ Continue
              /\ IF idx = Len(supported_encoders)
                 THEN pc' = "validate" /\ idx' = 1
                 ELSE pc' = pc /\ idx' = idx + 1
         ELSE /\ SysExit(143)
              /\ UNCHANGED <<bit_rate, pc, idx>>
    /\ UNCHANGED <<options, supported_encoders, supported0, validated,
                   stream_server, pulse, self_pulse, self_server_process,
                   renderer_holder, started, search_ran, registered_via, handlers,
                   shutdown_ran, cleanup_called, server_closed, radiovars>>

\* lines 146-148 validating the first encoder of the list only
ValidateFirstOnly ==
    /\ alive /\ pc = "validate"
    /\ validated' = [validated EXCEPT
                       ![supported_encoders[1]] = validated[supported_encoders[1]] + 1]
    /\ Continue
    /\ pc' = "server" /\ idx' = 1
    /\ UNCHANGED <<options, supported_encoders, supported0, bit_rate,
                   stream_server, pulse, self_pulse, self_server_process,
                   renderer_holder, started, search_ran, registered_via, handlers,
                   shutdown_ran, cleanup_called, server_closed, radiovars>>

\* lines 145-148, one iteration of the loop; validate() raises when the
\* encoder is unavailable
ValidateEncoder ==
    /\ alive /\ pc = "validate"
    /\ LET e == supported_encoders[idx] IN
       \E available \in BOOLEAN :
         IF available
         THEN /\ validated' = [validated EXCEPT ![e] = validated[e] + 1]
              /\ Continue
              /\ IF idx = Len(supported_encoders)
                 THEN pc' = "server" /\ idx' = 1
                 ELSE pc' = pc /\ idx' = idx + 1
         ELSE /\ Raise(147)
              /\ UNCHANGED <<validated, pc, idx>>
    /\ UNCHANGED <<options, supported_encoders, supported0, bit_rate,
                   stream_server, pulse, self_pulse, self_server_process,
                   renderer_holder, started, search_ran, registered_via, handlers,
                   shutdown_ran, cleanup_called, server_closed, radiovars>>

\* lines 150-162 with the socket.error swallowed
CreateStreamServerIgnoringError ==
    /\ alive /\ pc = "server"
    /\ \E bound \in BOOLEAN : stream_server' = IF bound THEN "bound" ELSE "error"
    /\ Continue
    /\ pc' = "pulse"
    /\ UNCHANGED <<options, supported_encoders, supported0, idx, bit_rate, validated,
                   pulse, self_pulse, self_server_process,
                   renderer_holder, started, search_ran, registered_via, handlers,
                   shutdown_ran, cleanup_called, server_closed, radiovars>>

\* lines 150-162: the manager, the queue, the bridge list and the stream
\* server, whose constructor binds the socket
CreateStreamServer ==
    /\ alive /\ pc = "server"
    /\ \E bound \in BOOLEAN :
         IF bound
         THEN stream_server' = "bound" /\ Continue /\ pc' = "pulse"
         ELSE stream_server' = "error" /\ SysExit(162) /\ UNCHANGED pc
    /\ UNCHANGED <<options, supported_encoders, supported0, idx, bit_rate, validated,
                   pulse, self_pulse, self_server_process,
                   renderer_holder, started, search_ran, registered_via, handlers,
                   shutdown_ran, cleanup_called, server_closed, radiovars>>

\* lines 164-165 with the watcher stored in the field self.pulse
CreatePulseWatcherOnSelf ==
    /\ alive /\ pc = "pulse"
    /\ pulse' = "watcher"
    /\ self_pulse' = "watcher"
    /\ Continue
    /\ pc' = "holder"
    /\ UNCHANGED <<options, supported_encoders, supported0, idx, bit_rate, validated,
                   stream_server, self_server_process,
                   renderer_holder, started, search_ran, registered_via, handlers,
                   shutdown_ran, cleanup_called, server_closed, radiovars>>

\* lines 164-165: the watcher is bound to the local name pulse
CreatePulseWatcher ==
    /\ alive /\ pc = "pulse"
    /\ pulse' = "watcher"
    /\ Continue
    /\ pc' = "holder"
    /\ UNCHANGED <<options, supported_encoders, supported0, idx, bit_rate, validated,
                   stream_server, self_pulse, self_server_process,
                   renderer_holder, started, search_ran, registered_via, handlers,
                   shutdown_ran, cleanup_called, server_closed, radiovars>>

\* lines 167-172: the renderer holder and the listener object
CreateRendererHolder ==
    /\ alive /\ pc = "holder"
    /\ renderer_holder' = TRUE
    /\ Continue
    /\ pc' = "processes"
    /\ UNCHANGED <<options, supported_encoders, supported0, idx, bit_rate, validated,
                   stream_server, pulse, self_pulse, self_server_process,
                   started, search_ran, registered_via, handlers,
                   shutdown_ran, cleanup_called, server_closed, radiovars>>

\* lines 174-191: line 174 reads self.pulse.run, which raises AttributeError
\* while self.pulse is None; otherwise the three processes are started, the
\* renderers are registered and the signal handlers are bound
RunProcesses ==
    /\ alive /\ pc = "processes"
    /\ IF self_pulse = None
       THEN /\ Raise(174)
            /\ UNCHANGED <<pc, started, search_ran, registered_via, handlers>>
       ELSE /\ Continue
            /\ started' = Workers
            /\ IF options.renderer_urls
               THEN registered_via' = {"url"} /\ UNCHANGED search_ran
               ELSE registered_via' = {"search"} /\ search_ran' = TRUE
            /\ handlers' = TRUE
            /\ pc' = "join"
    /\ UNCHANGED <<options, supported_encoders, supported0, idx, bit_rate, validated,
                   stream_server, pulse, self_pulse, self_server_process,
                   renderer_holder, shutdown_ran, cleanup_called, server_closed,
                   radiovars>>

\* lines 73-79: the body of shutdown
ShutdownBody ==
    /\ shutdown_ran' = TRUE
    /\ cleanup_called' = IF self_pulse # None THEN TRUE ELSE cleanup_called
    /\ server_closed' = IF self_server_process # None THEN TRUE ELSE server_closed
    /\ alive' = FALSE
    /\ ended_by' = "shutdown"
    /\ exit_line' = 79
    /\ exit_status' = 1

\* lines 73-79: shutdown called as a method of the object (both of its
\* arguments are optional)
shutdown ==
    /\ alive
    /\ ShutdownBody
    /\ UNCHANGED <<options, supported_encoders, supported0, pc, idx, bit_rate,
                   validated, stream_server, pulse, self_pulse, self_server_process,
                   renderer_holder, started, search_ran, registered_via, handlers,
                   radiovars>>

\* SIGINT or SIGTERM reaches the main process: shutdown runs once lines
\* 190-191 have bound it, before that the default disposition ends the process
DeliverSignal ==
    /\ alive
    /\ \E sig \in {"SIGINT", "SIGTERM"} :
         IF handlers
         THEN ShutdownBody
         ELSE /\ alive' = FALSE
              /\ ended_by' = sig
              /\ exit_line' = 0
              /\ exit_status' = IF sig = "SIGINT" THEN 1 ELSE 143
              /\ UNCHANGED <<shutdown_ran, cleanup_called, server_closed>>
    /\ UNCHANGED <<options, supported_encoders, supported0, pc, idx, bit_rate,
                   validated, stream_server, pulse, self_pulse, self_server_process,
                   renderer_holder, started, search_ran, registered_via, handlers,
                   radiovars>>

\* the radio script at rest
RadioIdle ==
    /\ devices = <<>>
    /\ mode = "list"
    /\ rpc = "start"
    /\ ri = 1
    /\ calls = <<>>
    /\ log = <<>>

\* lines 69-71 and the options of line 82
Init ==
    /\ options \in [host : BOOLEAN, encoder : EncoderOptions,
                    bit_rate : BitRateOptions, renderer_urls : BOOLEAN]
    /\ supported_encoders \in EncoderLists(MaxEncoders)
    /\ supported0 = supported_encoders
    /\ pc = "host"
    /\ idx = 1
    /\ alive = TRUE
    /\ ended_by = "none"
    /\ exit_line = 0
    /\ exit_status = -1
    /\ bit_rate = [e \in EncoderPool |-> None]
    /\ validated = [e \in EncoderPool |-> 0]
    /\ stream_server = None
    /\ pulse = None
    /\ self_pulse = None
    /\ self_server_process = None
    /\ renderer_holder = FALSE
    /\ started = {}
    /\ search_ran = FALSE
    /\ registered_via = {}
    /\ handlers = FALSE
    /\ shutdown_ran = FALSE
    /\ cleanup_called = FALSE
    /\ server_closed = FALSE
    /\ RadioIdle

Next ==
    \/ ResolveHost
    \/ SelectEncoder
    \/ SetBitRate
    \/ ValidateEncoder
    \/ CreateStreamServer
    \/ CreatePulseWatcher
    \/ CreateRendererHolder
    \/ RunProcesses
    \/ shutdown
    \/ DeliverSignal

Spec == Init /\ [][Next]_vars

\* ---------------------------------------------------------------- radio.py

\* lines 127-130: the script's device list, as <<name, flavour>>
ScriptDevices == <<<<"Wohnzimmer", "DLNA">>, <<"Kueche", "DLNA">>>>

DeviceNames == {"Wohnzimmer", "Kueche", "Bad"}
Flavours == {"DLNA", "Chromecast"}
ReturnCodes == {200, 500}

\* a discovered device: its name, its flavour and the code its control
\* calls return
DeviceKinds == [name : DeviceNames, flavour : Flavours, code : ReturnCodes]

\* lines 106-115: the device lists discovery can return
DeviceLists(n) == UNION {[1..k -> DeviceKinds] : k \in 0..n}

\* line 84: "if flavour"
FlavourGiven(flavour) == flavour # None /\ flavour # ""

\* lines 82-90 with the flavour ignored
RECURSIVE GetDeviceByNameOnly(_, _, _, _)
GetDeviceByNameOnly(devs, name, flavour, k) ==
    IF k > Len(devs) THEN 0
    ELSE IF devs[k].name = name THEN k
    ELSE GetDeviceByNameOnly(devs, name, flavour, k + 1)

\* lines 82-90: index of the device returned, 0 for None; the loop is at
\* position k
RECURSIVE _get_device(_, _, _, _)
_get_device(devs, name, flavour, k) ==
    IF k > Len(devs) THEN 0
    ELSE IF FlavourGiven(flavour)
         THEN IF devs[k].name = name /\ devs[k].flavour = flavour
              THEN k
              ELSE _get_device(devs, name, flavour, k + 1)
         ELSE IF devs[k].name = name
              THEN k
              ELSE _get_device(devs, name, flavour, k + 1)

\* lines 55-64 and 71-80: the control call on the device found and its log line
ControlCall(d) ==
    IF d # 0
    THEN /\ calls' = Append(calls, [inv |-> ri, dev |-> d])
         /\ log' = Append(log, [inv |-> ri, dev |-> d,
                                text |-> IF devices[d].code = 200
                                         THEN "instructed" ELSE "failed"])
    ELSE UNCHANGED <<calls, log>>

\* lines 132-137: the loop moves to the next device of the script's list
NextDevice ==
    /\ ri' = ri + 1
    /\ rpc' = IF ri = Len(ScriptDevices) THEN "done" ELSE rpc

\* lines 124-125
ListDevices ==
    /\ rpc = "run" /\ mode = "list"
    /\ rpc' = "listed"
    /\ UNCHANGED <<devices, mode, ri, calls, log, mainvars>>

\* lines 134-135 and 53-64
stop ==
    /\ rpc = "run" /\ mode = "stop"
    /\ ControlCall(_get_device(devices, ScriptDevices[ri][1], ScriptDevices[ri][2], 1))
    /\ NextDevice
    /\ UNCHANGED <<devices, mode, mainvars>>

\* lines 136-137 and 66-80: the url ends in .m3u, so the playlist is read;
\* _get_playlist_url returns None when it holds no http line, and _get_codec
\* then raises at line 95
play ==
    /\ rpc = "run" /\ mode = "play"
    /\ \E playlist_url \in {"url", None} :
         IF playlist_url = None
         THEN rpc' = "raised" /\ UNCHANGED <<ri, calls, log>>
         ELSE /\ ControlCall(_get_device(devices, ScriptDevices[ri][1],
                                         ScriptDevices[ri][2], 1))
              /\ NextDevice
    /\ UNCHANGED <<devices, mode, mainvars>>

\* the bridge is not part of the radio script
MainIdle ==
    /\ options = [host |-> TRUE, encoder |-> None, bit_rate |-> None,
                  renderer_urls |-> FALSE]
    /\ supported_encoders = <<"lame">>
    /\ supported0 = supported_encoders
    /\ pc = "host"
    /\ idx = 1
    /\ alive = FALSE
    /\ ended_by = "none"
    /\ exit_line = 0
    /\ exit_status = -1
    /\ bit_rate = [e \in EncoderPool |-> None]
    /\ validated = [e \in EncoderPool |-> 0]
    /\ stream_server = None
    /\ pulse = None
    /\ self_pulse = None
    /\ self_server_process = None
    /\ renderer_holder = FALSE
    /\ started = {}
    /\ search_ran = FALSE
    /\ registered_via = {}
    /\ handlers = FALSE
    /\ shutdown_ran = FALSE
    /\ cleanup_called = FALSE
    /\ server_closed = FALSE

\* lines 121-122: the arguments and the launcher after _discover_devices
InitRadio ==
    /\ MainIdle
    /\ devices \in DeviceLists(MaxDevices)
    /\ mode \in {"play", "stop", "list"}
    /\ rpc = "run"
    /\ ri = 1
    /\ calls = <<>>
    /\ log = <<>>

NextRadio ==
    \/ ListDevices
    \/ stop
    \/ play

SpecRadio == InitRadio /\ [][NextRadio]_vars

\* ================================================================ claims

\* startup ended on its own (sys.exit or an uncaught exception), not by a
\* signal or a call of shutdown
EndedAt(line) == ~alive /\ ended_by \in {"exit", "exception"} /\ exit_line = line

\* startup went past the given phase
Past(phase) == Rank(pc) > Rank(phase)

C2_AllWorkersStarted ==
    (stream_server = "bound" /\ ~alive /\ ended_by \in {"exit", "exception"})
        => started = Workers

\* C3 (as claimed): when shutdown has run after the watcher and the stream
\* server were created, the watcher's cleanup was called and the stream server
\* was closed.
C3_ShutdownCleansUp ==
    (shutdown_ran /\ pulse = "watcher" /\ stream_server = "bound")
        => (cleanup_called /\ server_closed)

\* C4: when the stream server cannot bind, startup has exited with a
\* non-zero status, no worker process is started and nothing is discovered or
\* registered.
C4_BindFailureIsFatal ==
    stream_server = "error" =>
        /\ EndedAt(162)
        /\ exit_status # 0 /\ exit_status # -1
        /\ started = {}
        /\ ~search_ran
        /\ registered_via = {}
        /\ pulse = None /\ ~renderer_holder

\* C4 witness: the bind failed and the process has exited with status 1.
C4_Witness == stream_server = "error" /\ ~alive /\ exit_status = 1

\* C5 (as claimed): startup is terminated by the bit-rate override only if
\* every encoder of the supported list rejects the bit rate.
C5_ExitOnlyIfAllReject ==
    EndedAt(143) =>
        \A k \in 1..Len(supported_encoders) :
            ~AcceptsBitRate(supported_encoders[k], options.bit_rate)

\* the supported list the encoder selection leaves
ListAfterSelection ==
    IF options.encoder = None THEN supported0
    ELSE SelectBySuffix(supported0, options.encoder)

\* C5 (amended): with a bit-rate override, startup exits with status 1 at the
\* first encoder of the supported list that rejects it, after setting the bit
\* rate on the encoders before it; it goes on only when every encoder of the
\* list accepted the bit rate, and no encoder is ever removed from the list.
C5_ExitAtFirstRejection ==
    (options.bit_rate # None /\ Rank(pc) >= Rank("bitrate")) =>
        /\ supported_encoders = ListAfterSelection
        /\ EndedAt(143) =>
             /\ exit_status = 1
             /\ ~AcceptsBitRate(supported_encoders[idx], options.bit_rate)
             /\ \A k \in 1..(idx - 1) :
                    /\ AcceptsBitRate(supported_encoders[k], options.bit_rate)
                    /\ bit_rate[supported_encoders[k]] = options.bit_rate
        /\ Past("bitrate") =>
             \A k \in 1..Len(supported_encoders) :
                    /\ AcceptsBitRate(supported_encoders[k], options.bit_rate)
                    /\ bit_rate[supported_encoders[k]] = options.bit_rate

\* C5 witness: startup exited at the second encoder of the list, after the
\* first one had accepted the bit rate.
C5_Witness ==
    /\ EndedAt(143)
    /\ idx = 2
    /\ AcceptsBitRate(supported_encoders[1], options.bit_rate)

\* C6 (as claimed): with --encoder, once the selection is over the supported
\* list is exactly the first encoder with that suffix, or, when no encoder has
\* it, startup has exited with status 1 at line 124 and nothing was validated.
C6_SelectOrExit ==
    (options.encoder # None /\ (Past("encoder") \/ EndedAt(124))) =>
        IF FirstWithSuffix(supported0, options.encoder, 1) # 0
        THEN supported_encoders =
                 <<supported0[FirstWithSuffix(supported0, options.encoder, 1)]>>
        ELSE /\ EndedAt(124)
             /\ exit_status = 1
             /\ \A e \in EncoderPool : validated[e] = 0

\* C7: no encoder is validated more than once, only encoders of the
\* supported list are validated, and once the stream server, the watcher, the
\* renderer holder or a worker process exists every encoder of the supported
\* list has been validated exactly once.
C7_ValidatedOnceBeforeCreation ==
    /\ \A e \in EncoderPool :
          /\ validated[e] <= 1
          /\ validated[e] > 0 => e \in Range(supported_encoders)
    /\ (stream_server # None \/ pulse # None \/ renderer_holder \/ started # {})
          => \A e \in Range(supported_encoders) : validated[e] = 1

\* C7 witness: the stream server is bound with two encoders in the list.
C7_Witness ==
    /\ stream_server = "bound"
    /\ Len(supported_encoders) >= 2
    /\ \A e \in Range(supported_encoders) : validated[e] = 1

\* the first device of the launcher's list with the name and, when a flavour
\* is given, the flavour; 0 when there is none
FirstMatch(name, flavour) ==
    LET M == {k \in 1..Len(devices) :
                 /\ devices[k].name = name
                 /\ FlavourGiven(flavour) => devices[k].flavour = flavour}
    IN IF M = {} THEN 0 ELSE CHOOSE k \in M : \A j \in M : k <= j

\* the control calls of the i-th invocation of the script
CallsOf(i) == {k \in 1..Len(calls) : calls[k].inv = i}

\* C9: each invocation of play / stop issues at most one control call, to the
\* first device matching name and (given) flavour, and none when no device
\* matches; a call is logged as successful exactly when its code is 200; a
\* non-200 code never stops the script, which goes on to the remaining
\* devices of its list.
C9_OneCallPerInvocation ==
    /\ \A n \in DeviceNames, f \in Flavours \cup {None, ""} :
          _get_device(devices, n, f, 1) = FirstMatch(n, f)
    /\ \A i \in 1..Len(ScriptDevices) :
          /\ Cardinality(CallsOf(i)) <= 1
          /\ \A k \in CallsOf(i) :
                calls[k].dev = FirstMatch(ScriptDevices[i][1], ScriptDevices[i][2])
          /\ i < ri =>
                (CallsOf(i) = {} <=>
                    FirstMatch(ScriptDevices[i][1], ScriptDevices[i][2]) = 0)
          /\ i >= ri => CallsOf(i) = {}
    /\ Len(log) = Len(calls)
    /\ \A k \in 1..Len(calls) :
          /\ log[k].dev = calls[k].dev
          /\ log[k].text = "instructed" <=> devices[calls[k].dev].code = 200
    /\ rpc = "done" => ri = Len(ScriptDevices) + 1
    /\ rpc = "raised" => mode = "play"
    /\ (mode = "stop" /\ rpc # "done") => ri <= Len(ScriptDevices)

\* C9 witness: the script is done, the first device answered with a non-200
\* code and the second device still got its call.
C9_Witness ==
    /\ rpc = "done"
    /\ Len(calls) = 2
    /\ devices[calls[1].dev].code # 200
    /\ calls[2].inv = 2

====
